---- MODULE Spec2Model ----
(***************************************************************************)
(* Model of service-worker.js (Registro Escuadrones PWA): the install,    *)
(* activate, fetch and message listeners over the browser's CacheStorage. *)
(* Every promise continuation of a listener is one action; the platform   *)
(* (network, CacheStorage) decides the outcome of each asynchronous call. *)
(***************************************************************************)
EXTENDS Integers, Sequences, FiniteSets, TLC

VARIABLES phase, cacheNames, store, installPc, addAllOutcome, fontOutcome, skipWaitingBy,
          activatePc, activateStart, pendingDeletes, deleteFailed, claimed,
          tasks, msgs

vars == <<phase, cacheNames, store, installPc, addAllOutcome, fontOutcome, skipWaitingBy,
          activatePc, activateStart, pendingDeletes, deleteFailed, claimed,
          tasks, msgs>>

-----------------------------------------------------------------------------
(* Bounds *)
MaxBody == 2
MaxFetches == 2
MaxMsgs == 1

-----------------------------------------------------------------------------
(* Constants of the script *)
CACHE_NAME == "registro-escuadrones-v1"
CACHE_OFFLINE == "registro-escuadrones-offline-v1"

(* URLs are sequences of tokens, so that startsWith / includes are the   *)
(* string operations of the code and not a comparison of hosts.          *)
StartsWith(url, prefix) ==
    /\ Len(url) >= Len(prefix)
    /\ SubSeq(url, 1, Len(prefix)) = prefix

Includes(url, needle) ==
    \E i \in 1..Len(url) :
        /\ i + Len(needle) - 1 <= Len(url)
        /\ SubSeq(url, i, i + Len(needle) - 1) = needle

(* self.location.origin and the base URL relative URLs resolve against *)
LocationOrigin == <<"http", "s", "://", "app.example">>
Resolve(file) == LocationOrigin \o <<"/", file>>

FontsCssUrl == <<"http", "s", "://", "fonts.googleapis.com", "/", "css2?family=Syne">>

ASSETS_TO_CACHE ==
    << Resolve("comensales.html"),
       Resolve("manifest.json"),
       Resolve("icon-192.png"),
       Resolve("icon-512.png"),
       FontsCssUrl >>

(* mutant: a fallback document that install never stores *)
OFFLINE_FALLBACK_NotInstalled == Resolve("offline.html")

OFFLINE_FALLBACK == Resolve("comensales.html")

(* The list the install listener hands to cache.addAll *)
InstallAddAllList == << Resolve("comensales.html"), Resolve("manifest.json") >>
(* The URL the install listener hands to cache.add *)
InstallAddUrl == FontsCssUrl

-----------------------------------------------------------------------------
(* Requests the page can issue *)
GstaticFontUrl == <<"http", "s", "://", "fonts.gstatic.com", "/", "syne.woff2">>
CdnLibUrl == <<"http", "s", "://", "cdn.example", "/", "lib.js">>
(* a third-party URL that carries a font host name in its query string *)
CdnQueryUrl == <<"http", "s", "://", "cdn.example", "/", "r?u=", "fonts.googleapis.com">>
ExtensionUrl == <<"chrome-extension", "://", "abcdef", "/", "inject.js">>

Requests ==
    { [method |-> "GET", url |-> Resolve("comensales.html")],
      [method |-> "GET", url |-> Resolve("icon-192.png")],
      [method |-> "GET", url |-> GstaticFontUrl],
      [method |-> "GET", url |-> CdnLibUrl],
      [method |-> "GET", url |-> CdnQueryUrl],
      [method |-> "GET", url |-> ExtensionUrl],
      [method |-> "POST", url |-> Resolve("comensales.html")] }

(* Every URL that can be a cache key, in a fixed enumeration order *)
UrlSeq ==
    << Resolve("comensales.html"), Resolve("manifest.json"),
       Resolve("icon-192.png"), Resolve("icon-512.png"),
       FontsCssUrl, GstaticFontUrl, CdnLibUrl, CdnQueryUrl >>
Urls == { UrlSeq[i] : i \in 1..Len(UrlSeq) }

(* Host of a URL: the tokens between "://" and the next "/" *)
RECURSIVE TakeUntilSlash(_)
TakeUntilSlash(s) ==
    IF s = <<>> \/ Head(s) = "/" THEN <<>>
    ELSE <<Head(s)>> \o TakeUntilSlash(Tail(s))

RECURSIVE AfterScheme(_)
AfterScheme(s) ==
    IF s = <<>> THEN <<>>
    ELSE IF Head(s) = "://" THEN Tail(s)
    ELSE AfterScheme(Tail(s))

UrlHost(url) == TakeUntilSlash(AfterScheme(url))

RECURSIVE SchemeOf(_)
SchemeOf(s) ==
    IF s = <<>> \/ Head(s) = "://" THEN <<>>
    ELSE <<Head(s)>> \o SchemeOf(Tail(s))

FontHosts == { <<"fonts.googleapis.com">>, <<"fonts.gstatic.com">> }

-----------------------------------------------------------------------------
(* Responses *)
Bodies == 1..MaxBody
Undefined == [url |-> <<>>, status |-> -1, type |-> "undefined", body |-> 0]
TypeFor(url) == IF UrlHost(url) = UrlHost(LocationOrigin) THEN "basic" ELSE "cors"
Ok(url, b) == [url |-> url, status |-> 200, type |-> TypeFor(url), body |-> b]
NotFound(url) == [url |-> url, status |-> 404, type |-> TypeFor(url), body |-> 0]
(* what fetch(url) can resolve with *)
NetResponses(url) == { Ok(url, b) : b \in Bodies } \cup { NotFound(url) }

-----------------------------------------------------------------------------
(* CacheStorage *)
AllCacheNames == { CACHE_NAME, CACHE_OFFLINE, "old-v0", "other" }
EmptyCache == [u \in Urls |-> Undefined]

SeqRange(s) == { s[i] : i \in 1..Len(s) }

(* caches.open(name): creates the cache when it does not exist *)
OpenNames(names, name) ==
    IF name \in SeqRange(names) THEN names ELSE Append(names, name)

(* cache.put(url, resp) on the named cache *)
CachePut(st, name, url, resp) ==
    [st EXCEPT ![name] = [@ EXCEPT ![url] = resp]]

(* caches.match(url): the first cache, in creation order, that has a match *)
RECURSIVE CachesMatch(_, _, _)
CachesMatch(names, st, url) ==
    IF names = <<>> \/ url \notin Urls THEN Undefined
    ELSE IF st[Head(names)][url] # Undefined THEN st[Head(names)][url]
    ELSE CachesMatch(Tail(names), st, url)

(* cache.keys() mapped to r.url *)
KeyUrls(cache) == SelectSeq(UrlSeq, LAMBDA u : cache[u] # Undefined)

(* caches.delete(name) *)
RemoveName(names, name) == SelectSeq(names, LAMBDA n : n # name)

-----------------------------------------------------------------------------
(* Caches left behind by earlier versions of the application *)
InitialCacheNames ==
    { <<>>, <<"old-v0">>, <<"old-v0", CACHE_OFFLINE, "other">> }

InitialStore ==
    [n \in AllCacheNames |->
        IF n = "old-v0" THEN [EmptyCache EXCEPT ![Resolve("comensales.html")] = Ok(Resolve("comensales.html"), 1)]
        ELSE IF n = "other" THEN [EmptyCache EXCEPT ![CdnLibUrl] = Ok(CdnLibUrl, 1)]
        ELSE EmptyCache]

Init ==
    /\ phase = "parsed"
    /\ cacheNames \in InitialCacheNames
    /\ store = [n \in AllCacheNames |->
                   IF n \in SeqRange(cacheNames) THEN InitialStore[n] ELSE EmptyCache]
    /\ installPc = "idle"
    /\ addAllOutcome = "none"
    /\ fontOutcome = "none"
    /\ skipWaitingBy = {}
    /\ activatePc = "idle"
    /\ activateStart = {}
    /\ pendingDeletes = {}
    /\ deleteFailed = FALSE
    /\ claimed = FALSE
    /\ tasks = <<>>
    /\ msgs = <<>>

-----------------------------------------------------------------------------
(* INSTALL *)
lifecycleVars == <<activatePc, activateStart, pendingDeletes, deleteFailed, claimed>>

(* the install event is dispatched; the listener calls caches.open *)
InstallEvent ==
    /\ phase = "parsed"
    /\ phase' = "installing"
    /\ installPc' = "open"
    /\ UNCHANGED <<cacheNames, store, addAllOutcome, fontOutcome, skipWaitingBy, lifecycleVars, tasks, msgs>>

(* caches.open(CACHE_NAME) resolves; cache.addAll is issued *)
InstallOpen ==
    /\ installPc = "open"
    /\ cacheNames' = OpenNames(cacheNames, CACHE_NAME)
    /\ installPc' = "addAll"
    /\ addAllOutcome' = "pending"
    /\ UNCHANGED <<phase, store, fontOutcome, skipWaitingBy, lifecycleVars, tasks, msgs>>

(* cache.addAll stores every URL of the list, or nothing; the assets are *)
(* at their first version when the worker is installed                  *)
RECURSIVE PutAll(_, _, _)
PutAll(st, name, urls) ==
    IF urls = <<>> THEN st
    ELSE PutAll(CachePut(st, name, Head(urls), Ok(Head(urls), 1)), name, Tail(urls))

(* cache.addAll resolves: all entries are stored, cache.add is issued *)
InstallAddAllOk ==
    /\ installPc = "addAll"
    /\ store' = PutAll(store, CACHE_NAME, InstallAddAllList)
    /\ installPc' = "addFont"
    /\ addAllOutcome' = "ok"
    /\ fontOutcome' = "pending"
    /\ UNCHANGED <<phase, cacheNames, skipWaitingBy, lifecycleVars, tasks, msgs>>

(* mutant: the rejection of cache.addAll is swallowed like the stylesheet's *)
InstallAddAllFail_Swallowed ==
    /\ installPc = "addAll"
    /\ installPc' = "addFont"
    /\ addAllOutcome' = "failed"
    /\ fontOutcome' = "pending"
    /\ UNCHANGED <<phase, cacheNames, store, skipWaitingBy, lifecycleVars, tasks, msgs>>

(* cache.addAll rejects: the chain rejects, waitUntil fails the install *)
InstallAddAllFail ==
    /\ installPc = "addAll"
    /\ installPc' = "failed"
    /\ addAllOutcome' = "failed"
    /\ phase' = "redundant"
    /\ UNCHANGED <<cacheNames, store, fontOutcome, skipWaitingBy, lifecycleVars, tasks, msgs>>

(* cache.add of the stylesheet resolves *)
InstallAddFontOk ==
    /\ installPc = "addFont"
    /\ store' = CachePut(store, CACHE_NAME, InstallAddUrl, Ok(InstallAddUrl, 1))
    /\ fontOutcome' = "ok"
    /\ installPc' = "skipWaiting"
    /\ UNCHANGED <<phase, cacheNames, addAllOutcome, skipWaitingBy, lifecycleVars, tasks, msgs>>

(* mutant: the .catch is missing and the rejection fails the install *)
InstallAddFontFail_Propagates ==
    /\ installPc = "addFont"
    /\ fontOutcome' = "failed"
    /\ installPc' = "failed"
    /\ phase' = "redundant"
    /\ UNCHANGED <<cacheNames, store, addAllOutcome, skipWaitingBy, lifecycleVars, tasks, msgs>>

(* cache.add of the stylesheet rejects and the .catch swallows it *)
InstallAddFontFail ==
    /\ installPc = "addFont"
    /\ fontOutcome' = "failed"
    /\ installPc' = "skipWaiting"
    /\ UNCHANGED <<phase, cacheNames, store, addAllOutcome, skipWaitingBy, lifecycleVars, tasks, msgs>>

(* the last .then: self.skipWaiting(); the waitUntil promise fulfils *)
InstallSkipWaiting ==
    /\ installPc = "skipWaiting"
    /\ skipWaitingBy' = skipWaitingBy \cup {"install"}
    /\ installPc' = "done"
    /\ phase' = "installed"
    /\ UNCHANGED <<cacheNames, store, addAllOutcome, fontOutcome, lifecycleVars, tasks, msgs>>

-----------------------------------------------------------------------------
(* ACTIVATE *)
installVars == <<installPc, addAllOutcome, fontOutcome>>

(* mutant: the filter forgets the current cache *)
ObsoleteNames_DropsCurrent(names) ==
    { n \in SeqRange(names) : n # CACHE_OFFLINE }

(* mutant: the filter forgets the reserved offline cache *)
ObsoleteNames_DropsOffline(names) ==
    { n \in SeqRange(names) : n # CACHE_NAME }

(* cacheNames.filter(name => name !== CACHE_NAME && name !== CACHE_OFFLINE) *)
ObsoleteNames(names) ==
    { n \in SeqRange(names) : n # CACHE_NAME /\ n # CACHE_OFFLINE }

(* the activate event is dispatched; the listener calls caches.keys *)
ActivateEvent ==
    /\ phase = "installed"
    /\ phase' = "activating"
    /\ activatePc' = "keys"
    /\ UNCHANGED <<cacheNames, store, installVars, skipWaitingBy, activateStart,
                   pendingDeletes, deleteFailed, claimed, tasks, msgs>>

(* mutant: Promise.all is not returned, the claim does not wait for it *)
ActivateKeys_NoWait ==
    /\ activatePc = "keys"
    /\ activateStart' = SeqRange(cacheNames)
    /\ pendingDeletes' = ObsoleteNames(cacheNames)
    /\ activatePc' = "claim"
    /\ UNCHANGED <<phase, cacheNames, store, installVars, skipWaitingBy,
                   deleteFailed, claimed, tasks, msgs>>

(* caches.keys() resolves: one caches.delete per obsolete name is issued; *)
(* Promise.all of an empty list fulfils at once                           *)
ActivateKeys ==
    /\ activatePc = "keys"
    /\ activateStart' = SeqRange(cacheNames)
    /\ pendingDeletes' = ObsoleteNames(cacheNames)
    /\ activatePc' = IF ObsoleteNames(cacheNames) = {} THEN "claim" ELSE "deleting"
    /\ UNCHANGED <<phase, cacheNames, store, installVars, skipWaitingBy,
                   deleteFailed, claimed, tasks, msgs>>

(* one caches.delete resolves; Promise.all fulfils after the last one *)
ActivateDeleteOk(n) ==
    /\ n \in pendingDeletes
    /\ pendingDeletes' = pendingDeletes \ {n}
    /\ cacheNames' = RemoveName(cacheNames, n)
    /\ store' = [store EXCEPT ![n] = EmptyCache]
    /\ activatePc' = IF activatePc = "deleting" /\ pendingDeletes = {n}
                     THEN "claim" ELSE activatePc
    /\ UNCHANGED <<phase, installVars, skipWaitingBy, activateStart,
                   deleteFailed, claimed, tasks, msgs>>

(* mutant: a rejected caches.delete is swallowed and counts as settled *)
ActivateDeleteFail_Swallowed(n) ==
    /\ n \in pendingDeletes
    /\ pendingDeletes' = pendingDeletes \ {n}
    /\ deleteFailed' = TRUE
    /\ activatePc' = IF activatePc = "deleting" /\ pendingDeletes = {n}
                     THEN "claim" ELSE activatePc
    /\ UNCHANGED <<phase, cacheNames, store, installVars, skipWaitingBy, activateStart,
                   claimed, tasks, msgs>>

(* one caches.delete rejects: Promise.all rejects at once, waitUntil      *)
(* rejects, the platform activates the worker all the same; deletions     *)
(* already issued keep running                                            *)
ActivateDeleteFail(n) ==
    /\ n \in pendingDeletes
    /\ pendingDeletes' = pendingDeletes \ {n}
    /\ deleteFailed' = TRUE
    /\ activatePc' = IF activatePc = "deleting" THEN "failed" ELSE activatePc
    /\ phase' = IF activatePc = "deleting" THEN "activated" ELSE phase
    /\ UNCHANGED <<cacheNames, store, installVars, skipWaitingBy, activateStart,
                   claimed, tasks, msgs>>

(* the last .then: self.clients.claim(); the waitUntil promise fulfils *)
ActivateClaim ==
    /\ activatePc = "claim"
    /\ claimed' = TRUE
    /\ activatePc' = "done"
    /\ phase' = "activated"
    /\ UNCHANGED <<cacheNames, store, installVars, skipWaitingBy, activateStart,
                   pendingDeletes, deleteFailed, tasks, msgs>>

-----------------------------------------------------------------------------
(* FETCH *)
workerVars == <<phase, installPc, addAllOutcome, fontOutcome, skipWaitingBy, activatePc,
                activateStart, pendingDeletes, deleteFailed, claimed, msgs>>

(* mutant: the method guard is missing *)
Intercepts_AnyMethod(req) ==
    StartsWith(req.url, <<"http">>)

(* the two guards in front of respondWith *)
Intercepts(req) ==
    /\ req.method = "GET"
    /\ StartsWith(req.url, <<"http">>)

(* mutant: the validation forgets the status *)
InvalidResponse_IgnoresStatus(r) ==
    \/ r = Undefined
    \/ r.type = "error"

(* !networkResponse || status !== 200 || type === 'error' *)
InvalidResponse(r) ==
    \/ r = Undefined
    \/ r.status # 200
    \/ r.type = "error"

(* url.includes(origin) || url.includes(font host) || url.includes(font host) *)
ShouldCache(url) ==
    \/ Includes(url, LocationOrigin)
    \/ Includes(url, <<"fonts.googleapis.com">>)
    \/ Includes(url, <<"fonts.gstatic.com">>)

(* mutant: the refresh stores whatever the network answered *)
RefreshStores_AnyResponse(r) == r # Undefined

(* networkResponse && networkResponse.status === 200, on the refresh path *)
RefreshStores(r) == r # Undefined /\ r.status = 200

NewTask(req) ==
    [ req       |-> req,
      pc        |-> IF Intercepts(req) THEN "match" ELSE "passthrough",
      responded |-> IF Intercepts(req) THEN "pending" ELSE "never",
      net       |-> "none",
      via       |-> "none",
      result    |-> Undefined,
      bg        |-> "none",
      put       |-> "none",
      netResp   |-> Undefined,
      clone     |-> Undefined ]

(* a fetch event is dispatched: the listener returns early, or calls *)
(* respondWith(caches.match(request)...)                              *)
FetchEvent(req) ==
    /\ phase = "activated"
    /\ Len(tasks) < MaxFetches
    /\ tasks' = Append(tasks, NewTask(req))
    /\ UNCHANGED <<cacheNames, store, workerVars>>

(* caches.match(request) resolves. Hit: the refresh fetch is issued and  *)
(* the cached response is returned. Miss: fetch(request) is issued.      *)
(* mutant: the hit path hands out the cached response only after the refresh *)
MatchStep_AwaitsRefresh(t, cached) ==
    IF cached # Undefined
    THEN [t EXCEPT !.pc = "done", !.via = "cache", !.bg = "fetching"]
    ELSE [t EXCEPT !.pc = "net", !.net = "pending"]

MatchStep(t, cached) ==
    IF cached # Undefined
    THEN [t EXCEPT !.pc = "done", !.responded = "resolved", !.via = "cache",
                   !.result = cached, !.bg = "fetching"]
    ELSE [t EXCEPT !.pc = "net", !.net = "pending"]

FetchMatch(i) ==
    /\ i \in 1..Len(tasks)
    /\ tasks[i].pc = "match"
    /\ tasks' = [tasks EXCEPT ![i] = MatchStep(@, CachesMatch(cacheNames, store, tasks[i].req.url))]
    /\ UNCHANGED <<cacheNames, store, workerVars>>

(* fetch(request) resolves on the miss path *)
(* mutant: the miss path hands the response back without caching it *)
NetStep_NeverCaches(t, r) ==
    [t EXCEPT !.pc = "done", !.net = "ok", !.netResp = r, !.responded = "resolved",
              !.via = "network", !.result = r]

NetStep(t, r) ==
    IF InvalidResponse(r)
    THEN [t EXCEPT !.pc = "done", !.net = "ok", !.netResp = r, !.responded = "resolved",
                   !.via = "network", !.result = r]
    ELSE IF ShouldCache(t.req.url)
    THEN [t EXCEPT !.pc = "done", !.net = "ok", !.netResp = r, !.responded = "resolved",
                   !.via = "network", !.result = r, !.put = "pending", !.clone = r]
    ELSE [t EXCEPT !.pc = "done", !.net = "ok", !.netResp = r, !.responded = "resolved",
                   !.via = "network", !.result = r]

FetchNetOk(i) ==
    /\ i \in 1..Len(tasks)
    /\ tasks[i].pc = "net"
    /\ \E r \in NetResponses(tasks[i].req.url) :
          tasks' = [tasks EXCEPT ![i] = NetStep(@, r)]
    /\ UNCHANGED <<cacheNames, store, workerVars>>

(* fetch(request) rejects on the miss path: the .catch asks for the fallback *)
FetchNetFail(i) ==
    /\ i \in 1..Len(tasks)
    /\ tasks[i].pc = "net"
    /\ tasks' = [tasks EXCEPT ![i].pc = "fallback", ![i].net = "failed"]
    /\ UNCHANGED <<cacheNames, store, workerVars>>

(* caches.match(OFFLINE_FALLBACK) resolves and is the interceptor's result *)
FallbackStep(t, found) ==
    [t EXCEPT !.pc = "done", !.responded = "resolved", !.via = "fallback", !.result = found]

FetchFallback(i) ==
    /\ i \in 1..Len(tasks)
    /\ tasks[i].pc = "fallback"
    /\ tasks' = [tasks EXCEPT ![i] = FallbackStep(@, CachesMatch(cacheNames, store, OFFLINE_FALLBACK))]
    /\ UNCHANGED <<cacheNames, store, workerVars>>

(* the refresh fetch resolves *)
RefreshStep(t, r) ==
    IF RefreshStores(r)
    THEN [t EXCEPT !.bg = "ok", !.netResp = r, !.put = "pending", !.clone = r]
    ELSE [t EXCEPT !.bg = "ok", !.netResp = r]

RefreshOk(i) ==
    /\ i \in 1..Len(tasks)
    /\ tasks[i].bg = "fetching"
    /\ \E r \in NetResponses(tasks[i].req.url) :
          tasks' = [tasks EXCEPT ![i] = RefreshStep(@, r)]
    /\ UNCHANGED <<cacheNames, store, workerVars>>

(* the refresh fetch rejects and the empty .catch swallows it *)
RefreshFail(i) ==
    /\ i \in 1..Len(tasks)
    /\ tasks[i].bg = "fetching"
    /\ tasks' = [tasks EXCEPT ![i].bg = "failed"]
    /\ UNCHANGED <<cacheNames, store, workerVars>>

(* mutant: the detached write keeps an entry that is already there *)
CacheWrite_KeepsExisting(i) ==
    /\ i \in 1..Len(tasks)
    /\ tasks[i].put = "pending"
    /\ cacheNames' = OpenNames(cacheNames, CACHE_NAME)
    /\ store' = IF store[CACHE_NAME][tasks[i].req.url] # Undefined THEN store
                ELSE CachePut(store, CACHE_NAME, tasks[i].req.url, tasks[i].clone)
    /\ tasks' = [tasks EXCEPT ![i].put = "done"]
    /\ UNCHANGED workerVars

(* mutant: the detached write goes to the reserved offline cache *)
CacheWrite_WrongCache(i) ==
    /\ i \in 1..Len(tasks)
    /\ tasks[i].put = "pending"
    /\ cacheNames' = OpenNames(cacheNames, CACHE_OFFLINE)
    /\ store' = CachePut(store, CACHE_OFFLINE, tasks[i].req.url, tasks[i].clone)
    /\ tasks' = [tasks EXCEPT ![i].put = "done"]
    /\ UNCHANGED workerVars

(* caches.open(CACHE_NAME).then(cache => cache.put(request, clone)):    *)
(* the detached write, which nothing waits for                           *)
CacheWrite(i) ==
    /\ i \in 1..Len(tasks)
    /\ tasks[i].put = "pending"
    /\ cacheNames' = OpenNames(cacheNames, CACHE_NAME)
    /\ store' = CachePut(store, CACHE_NAME, tasks[i].req.url, tasks[i].clone)
    /\ tasks' = [tasks EXCEPT ![i].put = "done"]
    /\ UNCHANGED workerVars

-----------------------------------------------------------------------------
(* MESSAGE *)
MessageTypes == { "SKIP_WAITING", "GET_CACHE_STATUS", "PING", "NODATA" }
NoReply == [cached |-> <<>>, count |-> -1]

(* mutant: every message that is not a status request forces skipWaiting *)
MessageEvent_SkipsOnAny(type) ==
    /\ phase \in {"installing", "installed", "activating", "activated"}
    /\ Len(msgs) < MaxMsgs
    /\ skipWaitingBy' = IF type # "GET_CACHE_STATUS" THEN skipWaitingBy \cup {"message"}
                        ELSE skipWaitingBy
    /\ msgs' = Append(msgs, [type |-> type,
                             pc |-> IF type = "GET_CACHE_STATUS" THEN "open" ELSE "done",
                             reply |-> NoReply])
    /\ UNCHANGED <<phase, cacheNames, store, installVars, lifecycleVars, tasks>>

(* the message listener's synchronous part *)
MessageEvent(type) ==
    /\ phase \in {"installing", "installed", "activating", "activated"}
    /\ Len(msgs) < MaxMsgs
    /\ skipWaitingBy' = IF type = "SKIP_WAITING" THEN skipWaitingBy \cup {"message"}
                        ELSE skipWaitingBy
    /\ msgs' = Append(msgs, [type |-> type,
                             pc |-> IF type = "GET_CACHE_STATUS" THEN "open" ELSE "done",
                             reply |-> NoReply])
    /\ UNCHANGED <<phase, cacheNames, store, installVars, lifecycleVars, tasks>>

(* caches.open(CACHE_NAME) resolves; cache.keys is issued *)
MessageOpen(i) ==
    /\ i \in 1..Len(msgs)
    /\ msgs[i].pc = "open"
    /\ cacheNames' = OpenNames(cacheNames, CACHE_NAME)
    /\ msgs' = [msgs EXCEPT ![i].pc = "keys"]
    /\ UNCHANGED <<phase, store, installVars, skipWaitingBy, lifecycleVars, tasks>>

(* cache.keys() resolves; the reply is posted on ports[0] *)
StatusReply(cache) ==
    [cached |-> KeyUrls(cache), count |-> Len(KeyUrls(cache))]

(* mutant: the reply lists the keys of the oldest cache, not of the main one *)
MessageKeys_OldestCache(i) ==
    /\ i \in 1..Len(msgs)
    /\ msgs[i].pc = "keys"
    /\ msgs' = [msgs EXCEPT ![i].pc = "done", ![i].reply = StatusReply(store[Head(cacheNames)])]
    /\ UNCHANGED <<phase, cacheNames, store, installVars, skipWaitingBy, lifecycleVars, tasks>>

MessageKeys(i) ==
    /\ i \in 1..Len(msgs)
    /\ msgs[i].pc = "keys"
    /\ msgs' = [msgs EXCEPT ![i].pc = "done", ![i].reply = StatusReply(store[CACHE_NAME])]
    /\ UNCHANGED <<phase, cacheNames, store, installVars, skipWaitingBy, lifecycleVars, tasks>>

-----------------------------------------------------------------------------
Next ==
    \/ InstallEvent
    \/ InstallOpen
    \/ InstallAddAllOk
    \/ InstallAddAllFail
    \/ InstallAddFontOk
    \/ InstallAddFontFail
    \/ InstallSkipWaiting
    \/ ActivateEvent
    \/ ActivateKeys
    \/ \E n \in AllCacheNames : ActivateDeleteOk(n)
    \/ \E n \in AllCacheNames : ActivateDeleteFail(n)
    \/ ActivateClaim
    \/ \E req \in Requests : FetchEvent(req)
    \/ \E i \in 1..MaxFetches : FetchMatch(i)
    \/ \E i \in 1..MaxFetches : FetchNetOk(i)
    \/ \E i \in 1..MaxFetches : FetchNetFail(i)
    \/ \E i \in 1..MaxFetches : FetchFallback(i)
    \/ \E i \in 1..MaxFetches : RefreshOk(i)
    \/ \E i \in 1..MaxFetches : RefreshFail(i)
    \/ \E i \in 1..MaxFetches : CacheWrite(i)
    \/ \E type \in MessageTypes : MessageEvent(type)
    \/ \E i \in 1..MaxMsgs : MessageOpen(i)
    \/ \E i \in 1..MaxMsgs : MessageKeys(i)

Spec == Init /\ [][Next]_vars

TypeOK ==
    /\ phase \in {"parsed", "installing", "installed", "activating", "activated", "redundant"}
    /\ SeqRange(cacheNames) \subseteq AllCacheNames
    /\ Len(tasks) <= MaxFetches
    /\ Len(msgs) <= MaxMsgs

-----------------------------------------------------------------------------
(* Vocabulary of the properties *)
MainCache == store[CACHE_NAME]
TaskIds == 1..Len(tasks)

(* the local (mandatory) URLs of the asset list: all but the stylesheet *)
MandatoryAssets ==
    { ASSETS_TO_CACHE[k] : k \in { j \in 1..Len(ASSETS_TO_CACHE) :
                                     UrlHost(ASSETS_TO_CACHE[j]) = UrlHost(LocationOrigin) } }

(* the cacheable-origin policy, stated on the host of the URL *)
ApprovedHost(url) ==
    \/ /\ UrlHost(url) = UrlHost(LocationOrigin)
       /\ SchemeOf(url) = SchemeOf(LocationOrigin)
    \/ UrlHost(url) \in FontHosts

HttpScheme(url) == SchemeOf(url) \in { <<"http">>, <<"http", "s">> }

(* C1: after an install that completed successfully, the main cache has an *)
(* entry for every mandatory URL of the asset list, whatever the outcome   *)
(* of the optional stylesheet.                                             *)
C1_InstallCachesAssetList ==
    installPc = "done" =>
        \A u \in MandatoryAssets : MainCache[u] # Undefined

(* C2: a status-200 network response on a miss is returned, and it is     *)
(* written to the main cache exactly when the URL is of the worker's own  *)
(* origin or of one of the two font hosts.                                *)
C2_CachedIffApprovedHost ==
    \A i \in TaskIds :
        (tasks[i].net = "ok" /\ tasks[i].netResp.status = 200) =>
            /\ tasks[i].responded = "resolved"
            /\ tasks[i].result = tasks[i].netResp
            /\ (tasks[i].put # "none") <=> ApprovedHost(tasks[i].req.url)

(* C3: on every path the interceptor resolves with a response object: it  *)
(* never rejects and never resolves with undefined.                       *)
C3_AlwaysResolvesWithResponse ==
    \A i \in TaskIds :
        /\ tasks[i].responded # "rejected"
        /\ tasks[i].responded = "resolved" =>
              /\ tasks[i].result # Undefined
              /\ tasks[i].via \in {"cache", "network", "fallback"}
        /\ (Intercepts(tasks[i].req) /\ tasks[i].pc = "done") =>
              tasks[i].responded = "resolved"

(* C3 witness: one request answered by the fallback, another by an invalid *)
(* network response                                                        *)
C3_Witness ==
    /\ \E i \in TaskIds : tasks[i].responded = "resolved" /\ tasks[i].via = "fallback"
    /\ \E i \in TaskIds : /\ tasks[i].responded = "resolved" /\ tasks[i].via = "network"
                          /\ tasks[i].result.status = 404

(* C4: on a miss whose network fetch fails, the interceptor resolves with *)
(* the stored document of ./comensales.html and nothing is thrown.        *)
C4_MissNetworkFailureServesFallback ==
    \A i \in TaskIds :
        tasks[i].net = "failed" =>
            /\ tasks[i].pc \in {"fallback", "done"}
            /\ tasks[i].responded # "rejected"
            /\ tasks[i].pc = "done" =>
                  /\ tasks[i].responded = "resolved"
                  /\ tasks[i].via = "fallback"
                  /\ tasks[i].result.url = Resolve("comensales.html")
                  /\ tasks[i].result.status = 200
                  /\ tasks[i].put = "none"

C4_Witness ==
    \E i \in TaskIds :
        /\ tasks[i].net = "failed" /\ tasks[i].pc = "done"
        /\ tasks[i].req.url # Resolve("comensales.html")
        /\ tasks[i].result.url = Resolve("comensales.html")

(* C5: on a hit the cached response is delivered in the step that issues  *)
(* the refresh fetch, and it stays the delivered response whether that    *)
(* fetch is still pending, has failed or has resolved.                    *)
C5_HitStep(i) ==
    (/\ tasks[i].pc = "match"
     /\ tasks'[i].pc # "match"
     /\ CachesMatch(cacheNames, store, tasks[i].req.url) # Undefined)
    => /\ tasks'[i].responded = "resolved"
       /\ tasks'[i].result = CachesMatch(cacheNames, store, tasks[i].req.url)
       /\ tasks'[i].bg = "fetching"

C5_Delivered(i) ==
    tasks[i].responded = "resolved" =>
        /\ tasks'[i].responded = "resolved"
        /\ tasks'[i].result = tasks[i].result

C5_HitDeliveredWithoutNetwork ==
    [][\A i \in TaskIds : C5_HitStep(i) /\ C5_Delivered(i)]_vars

C5_Witness ==
    /\ \E i \in TaskIds : /\ tasks[i].via = "cache" /\ tasks[i].responded = "resolved"
                          /\ tasks[i].bg = "fetching"
    /\ \E i \in TaskIds : /\ tasks[i].via = "cache" /\ tasks[i].responded = "resolved"
                          /\ tasks[i].bg = "failed"

(* C6, as the claim states it: once the refresh fetch of a hit has       *)
(* resolved with a status-200 response of a different body, the main     *)
(* cache holds that response under the request's URL.                    *)
FreshRefresh(i) ==
    /\ tasks[i].via = "cache"
    /\ tasks[i].bg = "ok"
    /\ tasks[i].netResp.status = 200
    /\ tasks[i].netResp.body # tasks[i].result.body

C6_FreshOnceRefreshResolved ==
    \A i \in TaskIds :
        FreshRefresh(i) => MainCache[tasks[i].req.url] = tasks[i].netResp

(* C6, amended: the main cache holds the fresh response once the detached *)
(* write of the refresh has completed, and keeps the response of the      *)
(* latest completed write to that URL; from then on a status reply lists  *)
(* the URL, and a fetch of the URL is answered with the main-cache entry  *)
(* unless a cache created before the main cache holds the URL.            *)
Shadowed(url) ==
    \E k \in 1..Len(cacheNames) :
        /\ cacheNames[k] # CACHE_NAME
        /\ store[cacheNames[k]][url] # Undefined
        /\ \A m \in 1..k : cacheNames[m] # CACHE_NAME

WrittenFresh(url) ==
    \E i \in TaskIds :
        FreshRefresh(i) /\ tasks[i].put = "done" /\ tasks[i].req.url = url

C6_WriteStep(i) ==
    (FreshRefresh(i) /\ tasks[i].put = "pending" /\ tasks'[i].put = "done")
    => store'[CACHE_NAME][tasks[i].req.url] = tasks[i].netResp

C6_LatestWrite(i) ==
    (FreshRefresh(i) /\ tasks[i].put = "done")
    => \E j \in TaskIds :
          /\ tasks[j].req.url = tasks[i].req.url
          /\ tasks[j].put = "done"
          /\ MainCache[tasks[i].req.url] = tasks[j].netResp

C6_NextFetch(j) ==
    (/\ tasks[j].pc = "match"
     /\ tasks'[j].pc # "match"
     /\ WrittenFresh(tasks[j].req.url)
     /\ ~Shadowed(tasks[j].req.url))
    => tasks'[j].result = MainCache[tasks[j].req.url]

C6_NextStatus(k) ==
    (msgs[k].pc = "keys" /\ msgs'[k].pc = "done")
    => \A u \in Urls : WrittenFresh(u) => u \in SeqRange(msgs'[k].reply.cached)

C6_FreshOnceWriteCompleted ==
    /\ [](\A i \in TaskIds : C6_LatestWrite(i))
    /\ [][/\ \A i \in TaskIds : C6_WriteStep(i) /\ C6_NextFetch(i)
          /\ \A k \in 1..Len(msgs) : C6_NextStatus(k)]_vars

(* C6 witness: a refresh wrote a fresh body and a later fetch of the same *)
(* URL was answered with it                                               *)
C6_Witness ==
    \E i, j \in TaskIds :
        /\ FreshRefresh(i) /\ tasks[i].put = "done"
        /\ j # i
        /\ tasks[j].req.url = tasks[i].req.url
        /\ tasks[j].via = "cache"
        /\ tasks[j].result = tasks[i].netResp

NotForWorker(req) == req.method # "GET" \/ ~HttpScheme(req.url)

Untouched(t) ==
    /\ t.pc = "passthrough"
    /\ t.responded = "never"
    /\ t.net = "none"
    /\ t.bg = "none"
    /\ t.put = "none"
    /\ t.via = "none"

C8_Dispatch ==
    (Len(tasks') = Len(tasks) + 1 /\ NotForWorker(tasks'[Len(tasks')].req))
    => /\ store' = store
       /\ cacheNames' = cacheNames

C8_NonGetNotIntercepted ==
    /\ [](\A i \in TaskIds : NotForWorker(tasks[i].req) => Untouched(tasks[i]))
    /\ [][C8_Dispatch]_vars

C8_Witness ==
    /\ \E i \in TaskIds : tasks[i].req.method = "POST" /\ Untouched(tasks[i])
    /\ \E i \in TaskIds : /\ tasks[i].req.method = "GET" /\ ~HttpScheme(tasks[i].req.url)
                          /\ Untouched(tasks[i])

(* C9: when the add of the mandatory assets fails, the install fails, the *)
(* stylesheet is not attempted and install does not call skipWaiting.     *)
C9_MandatoryFailureFailsInstall ==
    addAllOutcome = "failed" =>
        /\ installPc = "failed"
        /\ phase = "redundant"
        /\ fontOutcome = "none"
        /\ "install" \notin skipWaitingBy
        /\ \A u \in Urls : MainCache[u] = Undefined

C9_Witness ==
    addAllOutcome = "failed" /\ installPc = "failed"

(* C10: a failed stylesheet add does not fail the install, a completed    *)
(* install has called skipWaiting, and install calls skipWaiting only     *)
(* after the mandatory add succeeded and the stylesheet add settled.      *)
C10_OptionalFailureDoesNotBlock ==
    /\ fontOutcome = "failed" =>
          /\ installPc \in {"skipWaiting", "done"}
          /\ phase # "redundant"
          /\ addAllOutcome = "ok"
    /\ installPc = "done" => "install" \in skipWaitingBy
    /\ "install" \in skipWaitingBy =>
          /\ addAllOutcome = "ok"
          /\ fontOutcome \in {"ok", "failed"}
          /\ installPc = "done"

C10_Witness ==
    /\ fontOutcome = "failed"
    /\ installPc = "done"
    /\ "install" \in skipWaitingBy
    /\ phase = "installed"

(* C11: on a miss, a network response that is not a 200 (or is of type   *)
(* 'error') is the interceptor's result as it came, nothing is written   *)
(* and the fallback is not looked up.                                    *)
NotCacheable(r) == r.status # 200 \/ r.type = "error"

C11_InvalidResponsePassedThrough ==
    \A i \in TaskIds :
        (tasks[i].net = "ok" /\ NotCacheable(tasks[i].netResp)) =>
            /\ tasks[i].responded = "resolved"
            /\ tasks[i].result = tasks[i].netResp
            /\ tasks[i].via = "network"
            /\ tasks[i].put = "none"
            /\ tasks[i].clone = Undefined
            /\ MainCache[tasks[i].req.url] # tasks[i].netResp

C11_Witness ==
    \E i \in TaskIds :
        /\ tasks[i].net = "ok"
        /\ tasks[i].netResp.status = 404
        /\ ShouldCache(tasks[i].req.url)
        /\ tasks[i].result = tasks[i].netResp
        /\ tasks[i].pc = "done"

(* C12: every status reply has count = length of cached, and every URL it *)
(* lists was written to the main cache before, by install or by a cache   *)
(* write of the fetch interceptor.                                        *)
WrittenByInstall ==
    (IF addAllOutcome = "ok" THEN SeqRange(InstallAddAllList) ELSE {})
    \cup (IF fontOutcome = "ok" THEN {InstallAddUrl} ELSE {})

WrittenByFetch ==
    { tasks[i].req.url : i \in { j \in TaskIds : tasks[j].put = "done" } }

C12_StatusReplyConsistent ==
    \A k \in 1..Len(msgs) :
        msgs[k].reply # NoReply =>
            /\ msgs[k].type = "GET_CACHE_STATUS"
            /\ msgs[k].reply.count = Len(msgs[k].reply.cached)
            /\ SeqRange(msgs[k].reply.cached) \subseteq WrittenByInstall \cup WrittenByFetch

(* C12 witness: a reply that lists a URL written by the fetch interceptor *)
C12_Witness ==
    \E k \in 1..Len(msgs) :
        /\ msgs[k].reply # NoReply
        /\ msgs[k].reply.count >= 3
        /\ \E u \in SeqRange(msgs[k].reply.cached) : u \in WrittenByFetch \ WrittenByInstall

(* C13: a message that is neither SKIP_WAITING nor GET_CACHE_STATUS (or    *)
(* has no data) changes nothing: no cache is opened or written,            *)
(* skipWaiting is not called and no reply is ever posted.                  *)
Unrecognized(type) == type \notin {"SKIP_WAITING", "GET_CACHE_STATUS"}

C13_Dispatch ==
    (Len(msgs') = Len(msgs) + 1 /\ Unrecognized(msgs'[Len(msgs')].type))
    => /\ msgs'[Len(msgs')].pc = "done"
       /\ UNCHANGED <<phase, cacheNames, store, installPc, addAllOutcome, fontOutcome,
                      skipWaitingBy, activatePc, activateStart, pendingDeletes,
                      deleteFailed, claimed, tasks>>

C13_UnrecognizedMessageIgnored ==
    /\ [](\A k \in 1..Len(msgs) :
             Unrecognized(msgs[k].type) => msgs[k].pc = "done" /\ msgs[k].reply = NoReply)
    /\ [][C13_Dispatch]_vars

C13_Witness ==
    \E k \in 1..Len(msgs) :
        /\ msgs[k].type = "NODATA"
        /\ msgs[k].pc = "done"
        /\ phase = "activated"
        /\ "message" \notin skipWaitingBy

(* C14, as the claim states it: when the interceptor has resolved a miss  *)
(* with a cacheable status-200 response, the main cache already has the   *)
(* entry of the request.                                                  *)
CacheableMiss(i) ==
    /\ tasks[i].via = "network"
    /\ tasks[i].responded = "resolved"
    /\ tasks[i].netResp.status = 200
    /\ ShouldCache(tasks[i].req.url)

C14_StoredBeforeReturned ==
    \A i \in TaskIds :
        CacheableMiss(i) => MainCache[tasks[i].req.url] # Undefined

(* C14, amended: before the response is returned its copy is taken and    *)
(* the write to the main cache is issued, and the step stores nothing;    *)
(* the entry is in the main cache once that detached write has completed. *)
C14_ResolveStep(i) ==
    (/\ tasks[i].pc = "net"
     /\ tasks'[i].pc = "done"
     /\ tasks'[i].netResp.status = 200
     /\ ShouldCache(tasks[i].req.url))
    => /\ tasks'[i].responded = "resolved"
       /\ tasks'[i].result = tasks'[i].netResp
       /\ tasks'[i].put = "pending"
       /\ tasks'[i].clone = tasks'[i].netResp
       /\ store' = store

C14_WriteStep(i) ==
    (tasks[i].via = "network" /\ tasks[i].put = "pending" /\ tasks'[i].put = "done")
    => store'[CACHE_NAME][tasks[i].req.url] = tasks[i].clone

C14_CopyIssuedBeforeReturned ==
    /\ [](\A i \in TaskIds :
             (CacheableMiss(i) /\ tasks[i].put = "done") =>
                 MainCache[tasks[i].req.url] # Undefined)
    /\ [][\A i \in TaskIds : C14_ResolveStep(i) /\ C14_WriteStep(i)]_vars

(* C14 witness: the interceptor has resolved while the entry is not yet   *)
(* in the main cache                                                      *)
C14_Witness ==
    \E i \in TaskIds :
        /\ CacheableMiss(i)
        /\ tasks[i].put = "pending"
        /\ MainCache[tasks[i].req.url] = Undefined

(* C15: every key of the main cache is a URL install adds or a URL of the *)
(* worker's own origin or of a font host.                                 *)
InstallUrls == SeqRange(InstallAddAllList) \cup {InstallAddUrl}

C15_MainCacheKeysWithinPolicy ==
    \A u \in Urls :
        MainCache[u] # Undefined => (u \in InstallUrls \/ ApprovedHost(u))

(* C16: after a successful install the main cache exists and holds        *)
(* ./comensales.html in every later state, so the fallback lookup finds a *)
(* document; no step removes an entry of the main cache or the cache.     *)
C16_Kept ==
    /\ CACHE_NAME \in SeqRange(cacheNames) => CACHE_NAME \in SeqRange(cacheNames')
    /\ \A u \in Urls : store[CACHE_NAME][u] # Undefined => store'[CACHE_NAME][u] # Undefined

C16_FallbackAlwaysCached ==
    /\ [](installPc = "done" =>
             /\ CACHE_NAME \in SeqRange(cacheNames)
             /\ MainCache[Resolve("comensales.html")] # Undefined
             /\ CachesMatch(cacheNames, store, OFFLINE_FALLBACK) # Undefined)
    /\ [][C16_Kept]_vars

C16_Witness ==
    /\ installPc = "done"
    /\ activatePc = "done"
    /\ "old-v0" \in activateStart
    /\ MainCache[Resolve("comensales.html")] # Undefined
    /\ \E i \in TaskIds : tasks[i].via = "fallback" /\ tasks[i].responded = "resolved"
    /\ \E i \in TaskIds : tasks[i].put = "done"

(* C17: when fetches of one cacheable URL interleave, every completed     *)
(* write leaves its own response in the main cache and nothing else       *)
(* changes the entry: after the writes the entry is the response of the   *)
(* write that completed last, never missing and never a foreign response. *)
C17_WriteStep(i) ==
    (tasks[i].put = "pending" /\ tasks'[i].put = "done")
    => store'[CACHE_NAME][tasks[i].req.url] = tasks[i].netResp

C17_OnlyWritesChange(u) ==
    (store'[CACHE_NAME][u] # store[CACHE_NAME][u])
    => \/ installPc \in {"addAll", "addFont"} /\ installPc' # installPc
       \/ \E i \in TaskIds :
             /\ tasks[i].req.url = u
             /\ tasks[i].put = "pending"
             /\ tasks'[i].put = "done"
             /\ store'[CACHE_NAME][u] = tasks[i].netResp

Writers(u) == { i \in TaskIds : tasks[i].req.url = u /\ tasks[i].put # "none" }

C17_Settled(u) ==
    (Writers(u) # {} /\ \A i \in Writers(u) : tasks[i].put = "done")
    => \E i \in Writers(u) : MainCache[u] = tasks[i].netResp

C17_LastWriterWins ==
    /\ [](\A u \in Urls : C17_Settled(u))
    /\ [][/\ \A i \in TaskIds : C17_WriteStep(i)
          /\ \A u \in Urls : C17_OnlyWritesChange(u)]_vars

(* C17 witness: two misses of the same URL were in flight together, got   *)
(* different responses and both wrote                                     *)
C17_Witness ==
    \E i, j \in TaskIds :
        /\ i # j
        /\ tasks[i].req.url = tasks[j].req.url
        /\ tasks[i].via = "network" /\ tasks[j].via = "network"
        /\ tasks[i].put = "done" /\ tasks[j].put = "done"
        /\ tasks[i].netResp # tasks[j].netResp
        /\ MainCache[tasks[i].req.url] = tasks[i].netResp

(* C18: on a hit, a refresh that fails or resolves with a status other    *)
(* than 200 changes no cache and is invisible to the caller, whose result *)
(* stays the cached response.                                             *)
RefreshWithoutStore(t) ==
    /\ t.via = "cache"
    /\ \/ t.bg = "failed"
       \/ t.bg = "ok" /\ t.netResp.status # 200

C18_Step(i) ==
    (tasks[i].bg = "fetching" /\ RefreshWithoutStore(tasks'[i]))
    => /\ store' = store
       /\ cacheNames' = cacheNames
       /\ tasks'[i].responded = "resolved"
       /\ tasks'[i].result = tasks[i].result

C18_FailedRefreshInvisible ==
    /\ [](\A i \in TaskIds :
             RefreshWithoutStore(tasks[i]) =>
                 /\ tasks[i].put = "none"
                 /\ tasks[i].clone = Undefined
                 /\ tasks[i].responded = "resolved"
                 /\ tasks[i].result.url = tasks[i].req.url
                 /\ tasks[i].result.status = 200)
    /\ [][\A i \in TaskIds : C18_Step(i)]_vars

C18_Witness ==
    /\ \E i \in TaskIds : tasks[i].via = "cache" /\ tasks[i].bg = "failed"
    /\ \E i \in TaskIds : /\ tasks[i].via = "cache" /\ tasks[i].bg = "ok"
                          /\ tasks[i].netResp.status = 404

(* C19, as the claim states it: once activation has ended, and whenever a *)
(* fetch is served, only the main and the reserved offline cache exist,   *)
(* one cache per name.                                                    *)
NoDuplicateNames ==
    \A a, b \in 1..Len(cacheNames) : cacheNames[a] = cacheNames[b] => a = b

OnlyCurrentCaches ==
    SeqRange(cacheNames) \subseteq {CACHE_NAME, CACHE_OFFLINE}

C19_PurgedBeforeServing ==
    (activatePc \in {"done", "failed"} \/ Len(tasks) > 0) =>
        (OnlyCurrentCaches /\ NoDuplicateNames)

(* C19, amended: at most one cache exists per name at all times, caches   *)
(* are deleted only by the activation, which deletes none of the two      *)
(* current names; when activation has completed with every deletion       *)
(* succeeded, and whenever a fetch is then served, only the main and the  *)
(* reserved offline cache exist and no deletion is still pending.         *)
C19_OnlyActivationDeletes(n) ==
    (n \in SeqRange(cacheNames) /\ n \notin SeqRange(cacheNames'))
    => /\ n \in pendingDeletes
       /\ n \notin {CACHE_NAME, CACHE_OFFLINE}
       /\ activatePc # "idle"

C19_PurgedUnlessDeleteFails ==
    /\ [](/\ NoDuplicateNames
          /\ (activatePc = "done" \/ (Len(tasks) > 0 /\ ~deleteFailed)) =>
                (OnlyCurrentCaches /\ pendingDeletes = {}))
    /\ [][\A n \in AllCacheNames : C19_OnlyActivationDeletes(n)]_vars

C19_Witness ==
    /\ activatePc = "done"
    /\ {"old-v0", "other"} \subseteq activateStart
    /\ OnlyCurrentCaches
    /\ \E i \in TaskIds : tasks[i].responded = "resolved"

(* C20: clients.claim is called only after every deletion of an obsolete  *)
(* cache has completed, and an activation in which a deletion failed      *)
(* never claims the pages.                                                *)
C20_ClaimAfterDeletions ==
    /\ claimed =>
          /\ pendingDeletes = {}
          /\ ~deleteFailed
          /\ SeqRange(cacheNames) \cap (activateStart \ {CACHE_NAME, CACHE_OFFLINE}) = {}
    /\ activatePc = "claim" =>
          /\ pendingDeletes = {}
          /\ ~deleteFailed
    /\ deleteFailed => (~claimed /\ activatePc = "failed")

C20_Witness ==
    /\ claimed
    /\ {"old-v0", "other"} \subseteq activateStart
    /\ pendingDeletes = {}

====
